---- MODULE Spec2Model ----
(***************************************************************************)
(* A model of src/nutrislice_menu/cli.py: the NutrisliceClient school      *)
(* resolver (fetch_schools, resolve_school) and the menu extractor         *)
(* (parse_menu_items, get_entrees_only, get_daily_menu).                   *)
(*                                                                         *)
(* Python strings that the code inspects character by character (slugs,    *)
(* names, queries, section titles, dates) are sequences of one-character   *)
(* strings; food names, which the code only compares for equality, are     *)
(* TLA+ strings.                                                           *)
(***************************************************************************)
EXTENDS Integers, Sequences, FiniteSets, TLC

VARIABLES
    server_schools,  \* the school list the district API serves at present
    roster_changed,  \* whether the served list has changed during the run
    schools_cache,   \* NutrisliceClient._schools_cache
    query,           \* the school argument given on the command line
    op,              \* the resolver or daily-menu call that ran last
    net,             \* what the last call did on the network: none, ok, fail
    ret_schools,     \* what fetch_schools returned in the last call
    result,          \* what resolve_school returned
    all_matches,     \* resolve_school's local all_matches (a set of slugs)
    stderr,          \* what resolve_school printed: the candidates
    data,            \* the payload handed to the extractor
    target_date,     \* the date string handed to the extractor
    items,           \* what parse_menu_items returned
    entrees,         \* what get_entrees_only returned
    extracted,       \* the extractor functions that have run on data
    served,          \* the payloads the API serves per menu type
    date,            \* get_daily_menu's date argument
    entrees_only,    \* get_daily_menu's entrees_only argument
    fetch_ok,        \* whether each menu type's request succeeded
    fetched,         \* what fetch_menu returned per menu type
    menu             \* what get_daily_menu returned

resolver_vars == <<server_schools, roster_changed, schools_cache, query, net,
                   ret_schools, result, all_matches, stderr>>
extract_vars == <<data, target_date, items, entrees, extracted>>
daily_vars == <<served, date, entrees_only, fetch_ok, fetched, menu>>
vars == <<resolver_vars, op, extract_vars, daily_vars>>

(***************************************************************************)
(* Bounds of the model.                                                    *)
(***************************************************************************)
MaxSchools == 2
MaxQueryLen == 2
MaxItems == 3
MaxDays == 2
MaxServedItems == 2
MaxServedDays == 1

(***************************************************************************)
(* Python values.                                                          *)
(***************************************************************************)
None == [is_none |-> TRUE, val |-> <<>>]
Some(v) == [is_none |-> FALSE, val |-> v]
EmptyDict == [k \in {} |-> k]
Get(dict, key, default) == IF key \in DOMAIN dict THEN dict[key] ELSE default
Min(a, b) == IF a < b THEN a ELSE b
Range(s) == {s[i] : i \in DOMAIN s}

(***************************************************************************)
(* str methods, on sequences of characters.                                *)
(***************************************************************************)
\* ord(): the code points of the characters the model uses.
CodePoint ==
    [c \in {" "} |-> 32] @@ [c \in {"-"} |-> 45] @@
    [c \in {"0"} |-> 48] @@ [c \in {"1"} |-> 49] @@ [c \in {"2"} |-> 50] @@
    [c \in {"3"} |-> 51] @@ [c \in {"4"} |-> 52] @@ [c \in {"5"} |-> 53] @@
    [c \in {"6"} |-> 54] @@ [c \in {"7"} |-> 55] @@ [c \in {"8"} |-> 56] @@
    [c \in {"9"} |-> 57] @@
    [c \in {"A"} |-> 65] @@ [c \in {"B"} |-> 66] @@ [c \in {"C"} |-> 67] @@
    [c \in {"D"} |-> 68] @@ [c \in {"E"} |-> 69] @@ [c \in {"I"} |-> 73] @@
    [c \in {"N"} |-> 78] @@ [c \in {"R"} |-> 82] @@ [c \in {"S"} |-> 83] @@
    [c \in {"T"} |-> 84] @@
    [c \in {"a"} |-> 97] @@ [c \in {"b"} |-> 98] @@ [c \in {"c"} |-> 99] @@
    [c \in {"d"} |-> 100] @@ [c \in {"e"} |-> 101] @@ [c \in {"i"} |-> 105] @@
    [c \in {"n"} |-> 110] @@ [c \in {"r"} |-> 114] @@ [c \in {"s"} |-> 115] @@
    [c \in {"t"} |-> 116]

Chars == DOMAIN CodePoint

IsSpaceChar(c) == c = " "

\* str.lower() and str.upper() per character: the letters move by 32.
LowerChar ==
    [c \in Chars |->
        IF CodePoint[c] >= 65 /\ CodePoint[c] <= 90
        THEN CHOOSE l \in Chars : CodePoint[l] = CodePoint[c] + 32
        ELSE c]
UpperChar ==
    [c \in Chars |->
        IF CodePoint[c] >= 97 /\ CodePoint[c] <= 122
        THEN CHOOSE u \in Chars : CodePoint[u] = CodePoint[c] - 32
        ELSE c]

Lower(s) == [i \in 1..Len(s) |-> LowerChar[s[i]]]
Upper(s) == [i \in 1..Len(s) |-> UpperChar[s[i]]]

RECURSIVE LStrip(_)
LStrip(s) == IF s # <<>> /\ IsSpaceChar(Head(s)) THEN LStrip(Tail(s)) ELSE s

RECURSIVE RStrip(_)
RStrip(s) ==
    IF s # <<>> /\ IsSpaceChar(s[Len(s)])
    THEN RStrip(SubSeq(s, 1, Len(s) - 1))
    ELSE s

Strip(s) == RStrip(LStrip(s))

StartsWith(s, prefix) ==
    Len(prefix) <= Len(s) /\ SubSeq(s, 1, Len(prefix)) = prefix

\* Python's `needle in hay` on strings.
StrIn(needle, hay) ==
    \E i \in 0..(Len(hay) - Len(needle)) :
        SubSeq(hay, i + 1, i + Len(needle)) = needle

\* Python's s < t on strings: code point by code point, a proper prefix first.
RECURSIVE StrLess(_, _)
StrLess(s, t) ==
    IF t = <<>> THEN FALSE
    ELSE IF s = <<>> THEN TRUE
    ELSE IF CodePoint[Head(s)] # CodePoint[Head(t)]
         THEN CodePoint[Head(s)] < CodePoint[Head(t)]
         ELSE StrLess(Tail(s), Tail(t))

\* sorted() of a set of strings.
RECURSIVE Insert(_, _)
Insert(x, sorted) ==
    IF sorted = <<>> THEN <<x>>
    ELSE IF StrLess(x, Head(sorted)) THEN <<x>> \o sorted
    ELSE <<Head(sorted)>> \o Insert(x, Tail(sorted))

RECURSIVE Sorted(_)
Sorted(S) ==
    IF S = {} THEN <<>>
    ELSE LET x == CHOOSE y \in S : TRUE
         IN  Insert(x, Sorted(S \ {x}))

(***************************************************************************)
(* fetch_schools: the cached list when there is one; else one request,     *)
(* whose answer is cached, or an empty list when the request fails.        *)
(***************************************************************************)
\* fetch_schools without the test of the cache.
fetch_schools_every_time(cache, ok, response) ==
    IF ok
    THEN [cache |-> Some(response), ret |-> response, net |-> "ok"]
    ELSE [cache |-> cache, ret |-> <<>>, net |-> "fail"]

fetch_schools(cache, ok, response) ==
    IF ~cache.is_none
    THEN [cache |-> cache, ret |-> cache.val, net |-> "none"]
    ELSE IF ok
    THEN [cache |-> Some(response), ret |-> response, net |-> "ok"]
    ELSE [cache |-> cache, ret |-> <<>>, net |-> "fail"]

(***************************************************************************)
(* resolve_school.                                                         *)
(***************************************************************************)
MaxCandidates == 10

\* The query without strip().
NormalizeQueryNoStrip(q) == Lower(q)

\* query.lower().strip()
NormalizeQuery(q) == Strip(Lower(q))

exact_matches(schools, query_lower) ==
    SelectSeq(schools, LAMBDA s : s.slug = query_lower)

prefix_matches(schools, query_lower) ==
    SelectSeq(schools, LAMBDA s : StartsWith(s.slug, query_lower))

substring_matches(schools, query_lower) ==
    SelectSeq(schools, LAMBDA s : StrIn(query_lower, s.slug))

name_matches(schools, query_lower) ==
    SelectSeq(schools, LAMBDA s : StrIn(query_lower, Lower(s.name)))

\* The cascade that gives up at the first strategy with several matches.
CascadeStopAtAmbiguous(exact, prefix, substring, name) ==
    IF exact # <<>> THEN Some(exact[1].slug)
    ELSE IF Len(prefix) = 1 THEN Some(prefix[1].slug)
    ELSE IF Len(prefix) > 1 THEN None
    ELSE IF Len(substring) = 1 THEN Some(substring[1].slug)
    ELSE IF Len(substring) > 1 THEN None
    ELSE IF Len(name) = 1 THEN Some(name[1].slug)
    ELSE None

\* The cascade that takes the first of several matches.
CascadeFirstOfMany(exact, prefix, substring, name) ==
    IF exact # <<>> THEN Some(exact[1].slug)
    ELSE IF Len(prefix) >= 1 THEN Some(prefix[1].slug)
    ELSE IF Len(substring) >= 1 THEN Some(substring[1].slug)
    ELSE IF Len(name) >= 1 THEN Some(name[1].slug)
    ELSE None

\* The cascade without its exact-match step.
CascadeNoExact(exact, prefix, substring, name) ==
    IF Len(prefix) = 1 THEN Some(prefix[1].slug)
    ELSE IF Len(substring) = 1 THEN Some(substring[1].slug)
    ELSE IF Len(name) = 1 THEN Some(name[1].slug)
    ELSE None

\* The returns of lines 59-76, in order.
Cascade(exact, prefix, substring, name) ==
    IF exact # <<>> THEN Some(exact[1].slug)
    ELSE IF Len(prefix) = 1 THEN Some(prefix[1].slug)
    ELSE IF Len(substring) = 1 THEN Some(substring[1].slug)
    ELSE IF Len(name) = 1 THEN Some(name[1].slug)
    ELSE None

AllMatches(prefix, substring, name) ==
    {s.slug : s \in Range(prefix \o substring \o name)}

\* The lines printed without the [:10].
CandidatesUntruncated(schools, matches) ==
    LET shown == Sorted(matches)
    IN  [i \in 1..Len(shown) |->
            LET school == SelectSeq(schools, LAMBDA s : s.slug = shown[i])[1]
            IN  [slug |-> shown[i], name |-> school.name]]

\* The lines printed for sorted(all_matches)[:10].
Candidates(schools, matches) ==
    LET sorted == Sorted(matches)
        shown == SubSeq(sorted, 1, Min(MaxCandidates, Len(sorted)))
    IN  [i \in 1..Len(shown) |->
            LET school == SelectSeq(schools, LAMBDA s : s.slug = shown[i])[1]
            IN  [slug |-> shown[i], name |-> school.name]]

Quiet == [ambiguous |-> FALSE, lines |-> <<>>]

resolve_school(schools, q) ==
    IF schools = <<>>
    THEN [result |-> None, all_matches |-> {}, stderr |-> Quiet]
    ELSE
      LET query_lower == NormalizeQuery(q)
          exact == exact_matches(schools, query_lower)
          prefix == prefix_matches(schools, query_lower)
          substring == substring_matches(schools, query_lower)
          name == name_matches(schools, query_lower)
          found == Cascade(exact, prefix, substring, name)
          matches == AllMatches(prefix, substring, name)
      IN  IF ~found.is_none
          THEN [result |-> found, all_matches |-> {}, stderr |-> Quiet]
          ELSE IF matches # {}
          THEN [result |-> None, all_matches |-> matches,
                stderr |-> [ambiguous |-> TRUE,
                            lines |-> Candidates(schools, matches)]]
          ELSE [result |-> None, all_matches |-> {}, stderr |-> Quiet]

(***************************************************************************)
(* fetch_menu: the payload, or an empty dict when the request fails.       *)
(***************************************************************************)
fetch_menu(ok, response) == IF ok THEN response ELSE EmptyDict

(***************************************************************************)
(* The extractor.  A payload is a dict that may lack "days"; a day is      *)
(* [date, menu_items]; a menu item is [is_section_title, text, food],      *)
(* food being [present, name]: present is false for food None, and name is *)
(* "" for a name that is None or empty (both are falsy at line 116).       *)
(***************************************************************************)
NoFood == [present |-> FALSE, name |-> ""]
SectionTitle(text) == [is_section_title |-> TRUE, text |-> text, food |-> NoFood]
FoodItem(name) ==
    [is_section_title |-> FALSE, text |-> <<>>,
     food |-> [present |-> TRUE, name |-> name]]
NoFoodItem == [is_section_title |-> FALSE, text |-> <<>>, food |-> NoFood]
TitleWithFood(text, name) ==
    [is_section_title |-> TRUE, text |-> text,
     food |-> [present |-> TRUE, name |-> name]]

NoItems == [items |-> <<>>, seen |-> {}]

\* Appending without looking at seen.
AppendAlways(acc, name) ==
    IF name # ""
    THEN [items |-> Append(acc.items, name), seen |-> acc.seen \cup {name}]
    ELSE acc

\* if name and name not in seen: seen.add(name); items.append(name)
DedupAppend(acc, name) ==
    IF name # "" /\ name \notin acc.seen
    THEN [items |-> Append(acc.items, name), seen |-> acc.seen \cup {name}]
    ELSE acc

\* food = item.get("food"); if food: name = food.get("name"); ...
TakeFood(acc, item) ==
    IF item.food.present THEN DedupAppend(acc, item.food.name) ELSE acc

RECURSIVE ParseItems(_, _)
ParseItems(acc, menu_items) ==
    IF menu_items = <<>> THEN acc
    ELSE LET item == Head(menu_items)
         IN  IF item.is_section_title
             THEN ParseItems(acc, Tail(menu_items))
             ELSE ParseItems(TakeFood(acc, item), Tail(menu_items))

\* The loop over the days that takes every day, whatever its date.
RECURSIVE ParseDaysAnyDate(_, _, _)
ParseDaysAnyDate(acc, days, target) ==
    IF days = <<>> THEN acc
    ELSE ParseDaysAnyDate(ParseItems(acc, Head(days).menu_items),
                          Tail(days), target)

\* The loop over the days that stops after the first day of the date.
RECURSIVE ParseFirstDay(_, _, _)
ParseFirstDay(acc, days, target) ==
    IF days = <<>> THEN acc
    ELSE IF Head(days).date = target
         THEN ParseItems(acc, Head(days).menu_items)
         ELSE ParseFirstDay(acc, Tail(days), target)

RECURSIVE ParseDays(_, _, _)
ParseDays(acc, days, target) ==
    IF days = <<>> THEN acc
    ELSE IF Head(days).date = target
         THEN ParseDays(ParseItems(acc, Head(days).menu_items),
                        Tail(days), target)
         ELSE ParseDays(acc, Tail(days), target)

parse_menu_items(d, target) ==
    ParseDays(NoItems, Get(d, "days", <<>>), target).items

ENTREE == <<"E", "N", "T", "R", "E", "E">>

\* The test of the title without upper().
IsEntreeTitleCaseSensitive(text) == StrIn(ENTREE, text)

\* "ENTREE" in item.get("text", "").upper()
IsEntreeTitle(text) == StrIn(ENTREE, Upper(text))

RECURSIVE EntreeItems(_, _, _)
EntreeItems(acc, in_entree_section, menu_items) ==
    IF menu_items = <<>> THEN acc
    ELSE LET item == Head(menu_items)
         IN  IF item.is_section_title
             THEN EntreeItems(acc, IsEntreeTitle(item.text), Tail(menu_items))
             ELSE IF in_entree_section
             THEN EntreeItems(TakeFood(acc, item), in_entree_section,
                              Tail(menu_items))
             ELSE EntreeItems(acc, in_entree_section, Tail(menu_items))

RECURSIVE EntreeDays(_, _, _)
EntreeDays(acc, days, target) ==
    IF days = <<>> THEN acc
    ELSE IF Head(days).date = target
         THEN EntreeDays(EntreeItems(acc, FALSE, Head(days).menu_items),
                         Tail(days), target)
         ELSE EntreeDays(acc, Tail(days), target)

get_entrees_only(d, target) ==
    EntreeDays(NoItems, Get(d, "days", <<>>), target).items

(***************************************************************************)
(* get_daily_menu, with date.strftime("%Y-%m-%d") and date.strftime("%A"). *)
(***************************************************************************)
DigitChars == <<"0", "1", "2", "3", "4", "5", "6", "7", "8", "9">>

RECURSIVE ZeroPadded(_, _)
ZeroPadded(n, width) ==
    IF width = 0 THEN <<>>
    ELSE ZeroPadded(n \div 10, width - 1) \o <<DigitChars[(n % 10) + 1]>>

FormatDate(d) ==
    ZeroPadded(d.year, 4) \o <<"-">> \o ZeroPadded(d.month, 2) \o <<"-">>
        \o ZeroPadded(d.day, 2)

DayNames == <<"Sunday", "Monday", "Tuesday", "Wednesday", "Thursday",
              "Friday", "Saturday">>
MonthOffsets == <<0, 3, 2, 5, 0, 3, 5, 1, 4, 6, 2, 4>>

DayOfWeek(d) ==
    LET y == IF d.month < 3 THEN d.year - 1 ELSE d.year
    IN  DayNames[((y + (y \div 4) - (y \div 100) + (y \div 400)
                    + MonthOffsets[d.month] + d.day) % 7) + 1]

get_daily_menu(d, only_entrees, breakfast_data, lunch_data) ==
    LET date_str == FormatDate(d)
    IN  [date |-> date_str,
         day_of_week |-> DayOfWeek(d),
         breakfast |-> IF only_entrees
                       THEN get_entrees_only(breakfast_data, date_str)
                       ELSE parse_menu_items(breakfast_data, date_str),
         lunch |-> IF only_entrees
                   THEN get_entrees_only(lunch_data, date_str)
                   ELSE parse_menu_items(lunch_data, date_str)]

(***************************************************************************)
(* The inputs of the resolver.                                             *)
(***************************************************************************)
Slugs == {<<"a">>, <<"a", "a">>, <<"a", "b">>, <<"b", "a">>}
Names == {<<"A">>, <<"B">>}
Schools == [slug : Slugs, name : Names]

\* A larger district, to reach the limit on the candidates shown.
BulkRoster ==
    << [slug |-> <<"c", "b">>, name |-> <<"C", "a">>],
       [slug |-> <<"a", "-", "c">>, name |-> <<"C", "a">>],
       [slug |-> <<"c">>, name |-> <<"C", "a">>],
       [slug |-> <<"c", "-", "b">>, name |-> <<"C", "a">>],
       [slug |-> <<"b", "c">>, name |-> <<"C">>],
       [slug |-> <<"c", "c">>, name |-> <<"C", "a">>],
       [slug |-> <<"a", "c">>, name |-> <<"C", "a">>],
       [slug |-> <<"c", "a">>, name |-> <<"C", "a">>],
       [slug |-> <<"b", "-", "c">>, name |-> <<"C", "a">>],
       [slug |-> <<"c", "-", "a">>, name |-> <<"C", "a">>] >>
BulkCounts == {0, MaxCandidates}

UniqueSlugs(schools) ==
    \A i, j \in DOMAIN schools : schools[i].slug = schools[j].slug => i = j

SmallRosters ==
    {r \in UNION {[1..n -> Schools] : n \in 0..MaxSchools} : UniqueSlugs(r)}

Rosters == {r \o SubSeq(BulkRoster, 1, n) : r \in SmallRosters, n \in BulkCounts}

QueryChars == {"a", "b", "A", " "}
Queries == UNION {[1..n -> QueryChars] : n \in 0..MaxQueryLen}

(***************************************************************************)
(* The inputs of the extractor.                                            *)
(***************************************************************************)
\* The API serves days of two dates; the menu of the first is asked for.
TargetDays == {[year |-> 2024, month |-> 1, day |-> 5]}
Dates == TargetDays \cup {[year |-> 2024, month |-> 1, day |-> 6]}
DayDates == {FormatDate(d) : d \in Dates}
TargetDates == {FormatDate(d) : d \in TargetDays}

ServedItems ==
    { SectionTitle(<<"E", "n", "t", "r", "e", "e", "s">>),
      SectionTitle(<<"S", "I", "D", "E", "S">>),
      FoodItem("Pizza"), NoFoodItem }

MenuItems ==
    { SectionTitle(<<"E", "n", "t", "r", "e", "e", "s">>),
      SectionTitle(<<"S", "I", "D", "E", "S">>),
      TitleWithFood(<<"S", "I", "D", "E", "S">>, "Chips"),
      FoodItem("Pizza"), FoodItem("pizza"), FoodItem(""), NoFoodItem }

RECURSIVE Total(_)
Total(sizes) == IF sizes = <<>> THEN 0 ELSE Head(sizes) + Total(Tail(sizes))

\* The numbers of items of the days of a payload: at most max_days days
\* holding at most budget items between them.
Shapes(max_days, budget) ==
    UNION {{sizes \in [1..n -> 0..budget] : Total(sizes) <= budget} :
            n \in 0..max_days}

\* The days of the given sizes and dates, their items cut from flat in order.
DaysOf(sizes, dates, flat) ==
    [i \in 1..Len(sizes) |->
        [date |-> dates[i],
         menu_items |-> SubSeq(flat, Total(SubSeq(sizes, 1, i - 1)) + 1,
                               Total(SubSeq(sizes, 1, i)))]]

\* A payload with its "days", or, for no days and keyed false, without.
PayloadOf(keyed, sizes, dates, flat) ==
    IF keyed THEN [days |-> DaysOf(sizes, dates, flat)] ELSE EmptyDict

(***************************************************************************)
(* The resolver's operations.                                              *)
(***************************************************************************)
ResolverIdle ==
    /\ server_schools = <<>>
    /\ roster_changed = FALSE
    /\ schools_cache = None
    /\ query = <<>>
    /\ net = "none"
    /\ ret_schools = <<>>
    /\ result = None
    /\ all_matches = {}
    /\ stderr = Quiet

ExtractIdle ==
    /\ data = EmptyDict
    /\ target_date = <<>>
    /\ items = <<>>
    /\ entrees = <<>>
    /\ extracted = {}

NoFetch == [breakfast |-> FALSE, lunch |-> FALSE]
NoPayloads == [breakfast |-> EmptyDict, lunch |-> EmptyDict]

DailyIdle ==
    /\ served = NoPayloads
    /\ date = <<>>
    /\ entrees_only = FALSE
    /\ fetch_ok = NoFetch
    /\ fetched = NoPayloads
    /\ menu = <<>>

Init ==
    /\ server_schools \in Rosters
    /\ roster_changed = FALSE
    /\ schools_cache = None
    /\ query \in Queries
    /\ op = "init"
    /\ net = "none"
    /\ ret_schools = <<>>
    /\ result = None
    /\ all_matches = {}
    /\ stderr = Quiet
    /\ ExtractIdle
    /\ DailyIdle

FetchSchools ==
    \E ok \in BOOLEAN :
        LET f == fetch_schools(schools_cache, ok, server_schools)
        IN  /\ schools_cache' = f.cache
            /\ ret_schools' = f.ret
            /\ net' = f.net
            /\ op' = "fetch_schools"
            /\ result' = None
            /\ all_matches' = {}
            /\ stderr' = Quiet
            /\ UNCHANGED <<server_schools, roster_changed, query,
                           extract_vars, daily_vars>>

ResolveSchool ==
    \E ok \in BOOLEAN :
        LET f == fetch_schools(schools_cache, ok, server_schools)
            r == resolve_school(f.ret, query)
        IN  /\ schools_cache' = f.cache
            /\ ret_schools' = f.ret
            /\ net' = f.net
            /\ op' = "resolve_school"
            /\ result' = r.result
            /\ all_matches' = r.all_matches
            /\ stderr' = r.stderr
            /\ UNCHANGED <<server_schools, roster_changed, query,
                           extract_vars, daily_vars>>

\* The district changes its list between two requests.
RosterChange ==
    /\ ~roster_changed
    /\ server_schools # <<>>
    /\ server_schools' = Tail(server_schools)
    /\ roster_changed' = TRUE
    /\ UNCHANGED <<schools_cache, query, op, net, ret_schools, result,
                   all_matches, stderr, extract_vars, daily_vars>>

Next == FetchSchools \/ ResolveSchool

Spec == Init /\ [][Next]_vars

(***************************************************************************)
(* The cache over a run in which the district's list changes.              *)
(***************************************************************************)
CacheQueries == {<<>>, <<"a">>}

InitCache == Init /\ query \in CacheQueries

NextCache == FetchSchools \/ ResolveSchool \/ RosterChange

SpecCache == InitCache /\ [][NextCache]_vars

(***************************************************************************)
(* The extractor's operations, on a payload and a date drawn at the start. *)
(***************************************************************************)
InitExtract ==
    /\ \E sizes \in Shapes(MaxDays, MaxItems), keyed \in BOOLEAN :
         /\ keyed \/ sizes = <<>>
         /\ \E dates \in [1..Len(sizes) -> DayDates],
               flat \in [1..Total(sizes) -> MenuItems] :
                data = PayloadOf(keyed, sizes, dates, flat)
    /\ target_date \in TargetDates
    /\ items = <<>>
    /\ entrees = <<>>
    /\ extracted = {}
    /\ op = "init"
    /\ ResolverIdle
    /\ DailyIdle

ParseMenuItems ==
    /\ items' = parse_menu_items(data, target_date)
    /\ extracted' = extracted \cup {"parse_menu_items"}
    /\ UNCHANGED <<data, target_date, entrees, op, resolver_vars, daily_vars>>

GetEntreesOnly ==
    /\ entrees' = get_entrees_only(data, target_date)
    /\ extracted' = extracted \cup {"get_entrees_only"}
    /\ UNCHANGED <<data, target_date, items, op, resolver_vars, daily_vars>>

NextExtract == ParseMenuItems \/ GetEntreesOnly

SpecExtract == InitExtract /\ [][NextExtract]_vars

(***************************************************************************)
(* get_daily_menu against an API that serves one payload per menu type and *)
(* whose two requests succeed or fail independently.                       *)
(***************************************************************************)
InitDaily ==
    /\ \E b_sizes \in Shapes(MaxServedDays, MaxServedItems),
          b_keyed, l_keyed \in BOOLEAN :
         \E l_sizes \in Shapes(MaxServedDays, MaxServedItems - Total(b_sizes)) :
            /\ b_keyed \/ b_sizes = <<>>
            /\ l_keyed \/ l_sizes = <<>>
            /\ \E b_dates \in [1..Len(b_sizes) -> DayDates],
                  b_flat \in [1..Total(b_sizes) -> ServedItems],
                  l_dates \in [1..Len(l_sizes) -> DayDates],
                  l_flat \in [1..Total(l_sizes) -> ServedItems] :
                    served =
                        [breakfast |-> PayloadOf(b_keyed, b_sizes, b_dates, b_flat),
                         lunch |-> PayloadOf(l_keyed, l_sizes, l_dates, l_flat)]
    /\ date \in TargetDays
    /\ entrees_only \in BOOLEAN
    /\ fetch_ok = NoFetch
    /\ fetched = NoPayloads
    /\ menu = <<>>
    /\ op = "init"
    /\ ResolverIdle
    /\ ExtractIdle

GetDailyMenu ==
    \E breakfast_ok, lunch_ok \in BOOLEAN :
        LET breakfast_data == fetch_menu(breakfast_ok, served.breakfast)
            lunch_data == fetch_menu(lunch_ok, served.lunch)
        IN  /\ fetch_ok' = [breakfast |-> breakfast_ok, lunch |-> lunch_ok]
            /\ fetched' = [breakfast |-> breakfast_data, lunch |-> lunch_data]
            /\ menu' = get_daily_menu(date, entrees_only, breakfast_data,
                                      lunch_data)
            /\ op' = "get_daily_menu"
            /\ UNCHANGED <<served, date, entrees_only, resolver_vars,
                           extract_vars>>

NextDaily == GetDailyMenu

SpecDaily == InitDaily /\ [][NextDaily]_vars

(***************************************************************************)
(* The resolver's contract, stated on sets of schools and independently    *)
(* of the operators above.                                                 *)
(***************************************************************************)
LowerOf(c) ==
    CASE c = "A" -> "a" [] c = "B" -> "b" [] c = "C" -> "c" [] OTHER -> c

\* The query without its surrounding blanks, in lower case.
Normalized(q) ==
    LET inked == {i \in DOMAIN q : q[i] # " "}
    IN  IF inked = {} THEN <<>>
        ELSE LET first == CHOOSE i \in inked : \A j \in inked : i <= j
                 last == CHOOSE i \in inked : \A j \in inked : j <= i
             IN  [k \in 1..(last - first + 1) |-> LowerOf(q[first + k - 1])]

LoweredName(n) == [k \in DOMAIN n |-> LowerOf(n[k])]

BeginsWith(s, q) == Len(q) <= Len(s) /\ \A k \in 1..Len(q) : s[k] = q[k]

OccursIn(q, s) ==
    \E off \in 0..(Len(s) - Len(q)) : \A k \in 1..Len(q) : s[off + k] = q[k]

ExactSet(schools, q) == {i \in DOMAIN schools : schools[i].slug = q}
PrefixSet(schools, q) == {i \in DOMAIN schools : BeginsWith(schools[i].slug, q)}
SubstringSet(schools, q) == {i \in DOMAIN schools : OccursIn(q, schools[i].slug)}
NameSet(schools, q) ==
    {i \in DOMAIN schools : OccursIn(q, LoweredName(schools[i].name))}

Single(M) == Cardinality(M) = 1
Several(M) == Cardinality(M) >= 2
SlugOf(schools, M) == Some(schools[CHOOSE i \in M : TRUE].slug)

Resolved == op = "resolve_school"

\* The first strategy, in the order exact, prefix, substring, name, with
\* exactly one match decides.
FirstSingle(schools, q) ==
    IF Single(ExactSet(schools, q)) THEN SlugOf(schools, ExactSet(schools, q))
    ELSE IF Single(PrefixSet(schools, q)) THEN SlugOf(schools, PrefixSet(schools, q))
    ELSE IF Single(SubstringSet(schools, q))
         THEN SlugOf(schools, SubstringSet(schools, q))
    ELSE IF Single(NameSet(schools, q)) THEN SlugOf(schools, NameSet(schools, q))
    ELSE None

NoSingle(schools, q) ==
    /\ ~Single(ExactSet(schools, q))
    /\ ~Single(PrefixSet(schools, q))
    /\ ~Single(SubstringSet(schools, q))
    /\ ~Single(NameSet(schools, q))

\* C1, as stated: when the prefix strategy or the slug-substring strategy
\* is reached (no slug equals the query; for the substring strategy, the
\* prefix strategy has no single match) and matches two or more schools,
\* the cascade stops there and resolve_school returns no slug.
C1_StopsAtAmbiguous ==
    Resolved =>
        LET q == Normalized(query)
            P == PrefixSet(ret_schools, q)
            S == SubstringSet(ret_schools, q)
        IN  (ExactSet(ret_schools, q) = {} /\ ~Single(P)
                /\ (Several(P) \/ Several(S)))
            => result.is_none

\* C1, amended: a strategy with several matches does not stop the cascade.
\* When the prefix or the slug-substring strategy matches two or more
\* schools, resolve_school returns the slug equal to the query when there is
\* one, else the single prefix match when there is exactly one, else the
\* single name match when there is exactly one, and only otherwise no slug.
C1_FallsThrough ==
    Resolved =>
        LET q == Normalized(query)
            E == ExactSet(ret_schools, q)
            P == PrefixSet(ret_schools, q)
            S == SubstringSet(ret_schools, q)
            N == NameSet(ret_schools, q)
        IN  (Several(P) \/ Several(S)) =>
                result = IF E # {} THEN SlugOf(ret_schools, E)
                         ELSE IF Single(P) THEN SlugOf(ret_schools, P)
                         ELSE IF Single(N) THEN SlugOf(ret_schools, N)
                         ELSE None

\* Several prefix matches, none exact, and the single name match returned.
C1_Witness ==
    /\ Resolved
    /\ LET q == Normalized(query)
       IN  /\ Several(PrefixSet(ret_schools, q))
           /\ ExactSet(ret_schools, q) = {}
           /\ Single(NameSet(ret_schools, q))
           /\ result = SlugOf(ret_schools, NameSet(ret_schools, q))

\* C2: on a non-empty school list resolve_school returns the slug of the
\* single match of the first strategy, in the order exact slug, slug prefix,
\* slug substring, name substring, that has exactly one match (the query
\* lowercased and trimmed, the name lowercased), and no slug when none has.
C2_FirstSingleStrategy ==
    (Resolved /\ ret_schools # <<>>) =>
        result = FirstSingle(ret_schools, Normalized(query))

\* A query in upper case with blanks around it, one prefix match, none exact,
\* several substring matches.
C2_Witness ==
    /\ Resolved
    /\ query # Normalized(query)
    /\ LET q == Normalized(query)
       IN  /\ ExactSet(ret_schools, q) = {}
           /\ Single(PrefixSet(ret_schools, q))
           /\ Several(SubstringSet(ret_schools, q))
           /\ result = SlugOf(ret_schools, PrefixSet(ret_schools, q))

\* C3: resolve_school called with the slug of a school of the list returns
\* that slug, whatever else the slug is a prefix or a substring of.
C3_ExactSlug ==
    Resolved =>
        \A i \in DOMAIN ret_schools :
            query = ret_schools[i].slug => result = Some(query)

\* The query is one school's slug and a proper prefix of another's.
C3_Witness ==
    /\ Resolved
    /\ \E i, j \in DOMAIN ret_schools :
            /\ i # j
            /\ query = ret_schools[i].slug
            /\ BeginsWith(ret_schools[j].slug, query)
    /\ result = Some(query)

\* The order of Python's sorted() on the slugs' characters.
SlugCharRank(c) ==
    CASE c = "-" -> 0 [] c = "a" -> 1 [] c = "b" -> 2 [] c = "c" -> 3

Before(s, t) ==
    \E p \in 1..Len(t) :
        /\ \A k \in 1..(p - 1) : k <= Len(s) /\ s[k] = t[k]
        /\ \/ Len(s) = p - 1
           \/ Len(s) >= p /\ SlugCharRank(s[p]) < SlugCharRank(t[p])

\* C4: when no strategy has exactly one match resolve_school returns no slug;
\* when the union of the prefix, substring and name matches is not empty the
\* candidates printed are its slugs in lexicographic order, the first 10 of
\* them, each with its school's name; when it is empty nothing is printed.
C4_AmbiguousOrNoMatch ==
    (Resolved /\ NoSingle(ret_schools, Normalized(query))) =>
        LET q == Normalized(query)
            U == {ret_schools[i].slug :
                    i \in PrefixSet(ret_schools, q)
                          \cup SubstringSet(ret_schools, q)
                          \cup NameSet(ret_schools, q)}
            lines == stderr.lines
            shown == {lines[k].slug : k \in DOMAIN lines}
        IN  /\ result = None
            /\ stderr.ambiguous = (U # {})
            /\ Len(lines) = Min(10, Cardinality(U))
            /\ shown \subseteq U
            /\ \A k \in 1..(Len(lines) - 1) :
                    Before(lines[k].slug, lines[k + 1].slug)
            /\ \A u \in U \ shown : \A v \in shown : Before(v, u)
            /\ \A k \in DOMAIN lines :
                    \E i \in DOMAIN ret_schools :
                        /\ ret_schools[i].slug = lines[k].slug
                        /\ ret_schools[i].name = lines[k].name

\* More than 10 candidates, of which 10 are printed.
C4_Witness ==
    /\ Resolved
    /\ stderr.ambiguous
    /\ Cardinality(all_matches) > 10
    /\ Len(stderr.lines) = 10

\* C5: with an empty or an all-blank query, resolve_school on a list of one
\* school returns its slug, and on a longer list returns no slug and reports
\* an ambiguity whose candidates are all the schools of the list.
C5_EmptyQuery ==
    (Resolved /\ ret_schools # <<>> /\ \A k \in DOMAIN query : query[k] = " ") =>
        IF Len(ret_schools) = 1
        THEN result = Some(ret_schools[1].slug)
        ELSE /\ result = None
             /\ stderr.ambiguous
             /\ all_matches = {ret_schools[i].slug : i \in DOMAIN ret_schools}

\* An all-blank query on a list of several schools.
C5_Witness ==
    /\ Resolved
    /\ query # <<>>
    /\ \A k \in DOMAIN query : query[k] = " "
    /\ Len(ret_schools) >= 2
    /\ stderr.ambiguous
    /\ Cardinality(all_matches) = Len(ret_schools)

\* What one step may do to the cache: a step that leaves the district's
\* list alone is a call of fetch_schools, directly or from resolve_school.
CacheStep ==
    LET called == server_schools' = server_schools
    IN  /\ ~schools_cache.is_none =>
              /\ schools_cache' = schools_cache
              /\ called => (net' = "none" /\ ret_schools' = schools_cache.val)
        /\ (schools_cache.is_none /\ called) =>
              /\ net' \in {"ok", "fail"}
              /\ net' = "fail" => (ret_schools' = <<>> /\ schools_cache'.is_none)
              /\ net' = "ok" =>
                    (schools_cache' = Some(server_schools)
                        /\ ret_schools' = server_schools)

\* C9: the cache is filled by a successful request made while it is unset,
\* and by nothing else; once set it never changes, and every later call
\* returns it without a request; a failed request returns an empty list and
\* leaves the cache unset.
C9_CacheOnce == [][CacheStep]_vars

\* A call answered from the cache after the district's list has changed.
C9_Witness ==
    /\ ~schools_cache.is_none
    /\ roster_changed
    /\ schools_cache.val # server_schools
    /\ op = "fetch_schools"
    /\ net = "none"
    /\ ret_schools = schools_cache.val

(***************************************************************************)
(* The extractor's contract, stated on the positions of the items of the   *)
(* days of the target date.                                                *)
(***************************************************************************)
DaysIn(payload) == IF "days" \in DOMAIN payload THEN payload.days ELSE <<>>

\* <<day, item>> for every item of every day of date t.
Positions(payload, t) ==
    UNION {{<<i, j>> : j \in DOMAIN DaysIn(payload)[i].menu_items} :
            i \in {i \in DOMAIN DaysIn(payload) : DaysIn(payload)[i].date = t}}

ItemAt(payload, p) == DaysIn(payload)[p[1]].menu_items[p[2]]
NameAt(payload, p) == ItemAt(payload, p).food.name
IsTitleAt(payload, p) == ItemAt(payload, p).is_section_title

\* A food item with a name.
Named(payload, p) ==
    /\ ~IsTitleAt(payload, p)
    /\ ItemAt(payload, p).food.present
    /\ NameAt(payload, p) # ""

Earlier(p, r) == p[1] < r[1] \/ (p[1] = r[1] /\ p[2] < r[2])

UpperOf(c) ==
    CASE c = "e" -> "E" [] c = "n" -> "N" [] c = "t" -> "T" [] c = "r" -> "R"
      [] c = "s" -> "S" [] c = "i" -> "I" [] c = "d" -> "D" [] OTHER -> c

SaysEntree(text) ==
    \E off \in 0..(Len(text) - 6) :
        /\ UpperOf(text[off + 1]) = "E" /\ UpperOf(text[off + 2]) = "N"
        /\ UpperOf(text[off + 3]) = "T" /\ UpperOf(text[off + 4]) = "R"
        /\ UpperOf(text[off + 5]) = "E" /\ UpperOf(text[off + 6]) = "E"

\* The last section title before p in p's day says ENTREE.
UnderEntree(payload, p) ==
    \E j \in 1..(p[2] - 1) :
        /\ IsTitleAt(payload, <<p[1], j>>)
        /\ SaysEntree(ItemAt(payload, <<p[1], j>>).text)
        /\ \A k \in (j + 1)..(p[2] - 1) : ~IsTitleAt(payload, <<p[1], k>>)

\* out holds the names at the positions P, each once, in the order of their
\* first positions.
FirstOccurrences(payload, P, out) ==
    LET First(n) ==
            CHOOSE p \in P :
                /\ NameAt(payload, p) = n
                /\ \A r \in P : NameAt(payload, r) = n => ~Earlier(r, p)
    IN  /\ Range(out) = {NameAt(payload, p) : p \in P}
        /\ \A i, j \in DOMAIN out :
                i < j => /\ out[i] # out[j]
                         /\ Earlier(First(out[i]), First(out[j]))

\* C6: parse_menu_items returns the non-empty food names of the items that
\* are not section titles of the days of the target date, each once, in the
\* order of their first occurrences.
C6_ParseDedup ==
    "parse_menu_items" \in extracted =>
        FirstOccurrences(data,
            {p \in Positions(data, target_date) : Named(data, p)}, items)

\* A name that occurs twice and another name after it.
C6_Witness ==
    /\ "parse_menu_items" \in extracted
    /\ Len(items) = 2
    /\ \E p, r \in Positions(data, target_date) :
            /\ Earlier(p, r)
            /\ Named(data, p) /\ Named(data, r)
            /\ NameAt(data, p) = NameAt(data, r)
            /\ NameAt(data, p) = items[1]

\* C7: get_entrees_only emits a food item iff the last section title before
\* it in its day says ENTREE in upper case: items before the first title of
\* a day and items under another title are skipped, and no title is emitted;
\* the names emitted are deduplicated as in parse_menu_items.
C7_EntreeSection ==
    "get_entrees_only" \in extracted =>
        FirstOccurrences(data,
            {p \in Positions(data, target_date) :
                Named(data, p) /\ UnderEntree(data, p)}, entrees)

\* One food emitted under an entree title and another, outside, skipped.
C7_Witness ==
    /\ "get_entrees_only" \in extracted
    /\ entrees # <<>>
    /\ \E p \in Positions(data, target_date) :
            /\ Named(data, p)
            /\ ~UnderEntree(data, p)
            /\ NameAt(data, p) \notin Range(entrees)

\* C10: every name get_entrees_only returns, parse_menu_items returns too,
\* on the same payload and date.
C10_EntreesSubset ==
    extracted = {"parse_menu_items", "get_entrees_only"} =>
        Range(entrees) \subseteq Range(items)

\* Entrees found, and fewer names than parse_menu_items finds.
C10_Witness ==
    /\ extracted = {"parse_menu_items", "get_entrees_only"}
    /\ entrees # <<>>
    /\ Range(entrees) # Range(items)

\* No day of date t holds an item.
Hollow(payload, t) ==
    \A i \in DOMAIN DaysIn(payload) :
        DaysIn(payload)[i].date = t => DaysIn(payload)[i].menu_items = <<>>

MenuTypes == {"breakfast", "lunch"}

\* C8: get_daily_menu returns a menu with its four fields whatever happens;
\* a failed request yields a payload without days; and for a payload without
\* days, without a day of the target date, or whose days of that date hold
\* no item, parse_menu_items and get_entrees_only return the empty list and
\* so is that menu type's list in the menu.
C8_EmptyNotError ==
    op = "get_daily_menu" =>
        /\ DOMAIN menu = {"date", "day_of_week", "breakfast", "lunch"}
        /\ \A m \in MenuTypes :
            /\ ~fetch_ok[m] => DaysIn(fetched[m]) = <<>>
            /\ Hollow(fetched[m], menu.date) =>
                /\ menu[m] = <<>>
                /\ parse_menu_items(fetched[m], menu.date) = <<>>
                /\ get_entrees_only(fetched[m], menu.date) = <<>>

\* The breakfast request fails though a breakfast with food is served, the
\* lunch of the date has no item, and the menu has two empty lists.
C8_Witness ==
    /\ op = "get_daily_menu"
    /\ ~fetch_ok.breakfast
    /\ ~Hollow(served.breakfast, menu.date)
    /\ fetch_ok.lunch
    /\ \E i \in DOMAIN DaysIn(fetched.lunch) :
            DaysIn(fetched.lunch)[i].date = menu.date
    /\ menu.breakfast = <<>>
    /\ menu.lunch = <<>>

====
